---- MODULE Spec2Model ----
(***************************************************************************)
(* Model of the ERP.AERO backend (src/server.js, src/config/database.js):  *)
(* an Express application over a `mysql` connection pool with              *)
(*   - auth handlers: signup, signin, refresh (/signin/new_token), logout  *)
(*   - the in-memory refresh-token registry `refreshTokens`                *)
(*   - file handlers: upload, list, get, download, update, delete          *)
(*                                                                         *)
(* Requests run on Node's single-threaded event loop.  A handler runs      *)
(* without interruption until it hands control back to the loop (a         *)
(* database callback, a bcrypt promise, multer's disk write); each such    *)
(* stretch is one action.  Requests occupy slots; a slot goes              *)
(* idle -> (intermediate program points) -> done, and the finished         *)
(* response stays in the slot until the client takes it (Release).         *)
(***************************************************************************)
EXTENDS Integers, Sequences, FiniteSets, TLC

(***************************************************************************)
(* Bounds of the model.                                                    *)
(***************************************************************************)
MaxTokens == 2      \* cap on the length of refreshTokens
MaxTicks == 1       \* cap on the number of clock advances
MaxBlobs == 2       \* cap on the number of blobs multer ever stores

VARIABLES
    users,          \* table `users` (rows in storage order)
    refreshTokens,  \* server.js:64  let refreshTokens = []
    now,            \* wall clock, in units of ten minutes
    files,          \* table `files` (rows in storage order)
    nextId,         \* AUTO_INCREMENT counter of `files`
    uploads,        \* the uploads directory: stored name -> blob content
    nextBlob,       \* number of blobs multer has stored (names are fresh)
    req             \* the request slots

vars == <<users, refreshTokens, now, files, nextId, uploads, nextBlob, req>>

\* two requests can be in flight at once
SlotIds == {"r1", "r2"}

(***************************************************************************)
(* JavaScript values.  A string is a sequence of character codes wrapped   *)
(* in a record, so that null, undefined and strings can be compared.       *)
(***************************************************************************)
Null == [type |-> "null"]
Undefined == [type |-> "undefined"]
Str(s) == [type |-> "string", chars |-> s]
IsString(v) == v.type = "string"

Rep(c, n) == [i \in 1..n |-> c]

\* obj.name for an object that may lack the property
Field(obj, name) == IF name \in DOMAIN obj THEN obj[name] ELSE Undefined

(***************************************************************************)
(* bcrypt.  A hash embeds its salt and cost; compare re-hashes the data    *)
(* with the salt of the stored hash.  compare rejects when an argument is  *)
(* missing and answers false for a stored value that is no bcrypt hash.    *)
(***************************************************************************)
Salts == {"s1", "s2"}

BcryptHash(data, salt) ==
    [type |-> "string", chars |-> <<"$2b$", "10", salt>>, digest |-> <<salt, data.chars>>]

BcryptCompare(data, hash) ==
    IF ~IsString(data) \/ ~IsString(hash) THEN "throw"
    ELSE IF "digest" \in DOMAIN hash /\ hash.digest = <<hash.digest[1], data.chars>>
         THEN "true" ELSE "false"

(***************************************************************************)
(* jsonwebtoken.  sign stamps iat = now and exp = iat + lifetime; verify   *)
(* fails on a malformed token, a signature made with another secret, or    *)
(* an expired token (now >= exp).                                          *)
(***************************************************************************)
ACCESS_SECRET_TOKEN == "access-secret"
REFRESH_TOKEN_SECRET == "refresh-secret"
AccessTTL == 1       \* expiresIn: '10m'
RefreshTTL == 1008   \* expiresIn: '7d'

JwtSign(payload, secret, ttl, t) ==
    [type |-> "string", jwt |-> TRUE, payload |-> payload, secret |-> secret,
     iat |-> t, exp |-> t + ttl]

JwtInvalid == [type |-> "JsonWebTokenError"]

JwtVerifyNoExpiry(token, secret, t) ==
    IF IsString(token) /\ "jwt" \in DOMAIN token /\ token.secret = secret
    THEN token.payload
    ELSE JwtInvalid

JwtVerify(token, secret, t) ==
    IF IsString(token) /\ "jwt" \in DOMAIN token /\ token.secret = secret /\ t < token.exp
    THEN token.payload
    ELSE JwtInvalid

\* server.js:72 calls generateAccessToken, which is defined nowhere in the
\* program: evaluating the call throws a ReferenceError.
ReferenceError == [type |-> "ReferenceError"]
generateAccessToken(payload) == ReferenceError

(***************************************************************************)
(* The `users` table.                                                      *)
(***************************************************************************)
Email1 == Str(<<"a", "@", "a", ".", "a">>)
Email2 == Str(<<"b", "@", "a", ".", "a">>)
EmailUnknown == Str(<<"c", "@", "a", ".", "a">>)
Phone1 == Str(Rep("5", 12))
Phone2 == Str(Rep("6", 12))
Password1 == Str(Rep("p", 5))
Password2 == Str(Rep("q", 5))

UserRow(id, first, last, email, phone, password) ==
    [id |-> id, first_name |-> first, last_name |-> last, email |-> email,
     phone_number |-> phone, password |-> password]

\* rows the database holds when the process starts
InitialUsers ==
    << UserRow(1, Str(<<"a">>), Str(<<"a">>), Email1, Phone1, BcryptHash(Password1, "s1")),
       UserRow(2, Str(<<"b">>), Str(<<"b">>), Email2, Phone2, BcryptHash(Password2, "s2")) >>

\* SELECT * FROM users WHERE email = ? OR phone_number = ?
SelectUsers(table, identifier) ==
    SelectSeq(table, LAMBDA u : IsString(identifier)
                                /\ (u.email = identifier \/ u.phone_number = identifier))

\* INSERT INTO users (first_name, last_name, email, password) VALUES (?, ?, ?, ?)
InsertUser(table, first, last, email, password) ==
    Append(table, UserRow(Len(table) + 1, first, last, email, Null, password))

(***************************************************************************)
(* registrationSchema (Joi).  Each key is a required, non-empty string;    *)
(* validate reports the first failing key in schema order, or no error.    *)
(***************************************************************************)
NoError == [type |-> "undefined"]
JoiError(key, rule) == [type |-> "ValidationError", key |-> key, rule |-> rule]

\* Joi.string().email(): one "@" with a non-empty local part before it and a
\* dotted domain (at least two non-empty segments) after it
IsEmail(chars) ==
    \E i \in 2..(Len(chars) - 3) :
        /\ chars[i] = "@"
        /\ \A j \in 1..Len(chars) : j # i => chars[j] # "@"
        /\ \E k \in (i + 2)..(Len(chars) - 1) : chars[k] = "."
        /\ chars[i + 1] # "."
        /\ chars[Len(chars)] # "."

\* Joi.string().required(), then the key's own rule
JoiStringRule(v, rule) ==
    IF v = Undefined THEN "any.required"
    ELSE IF ~IsString(v) THEN "string.base"
    ELSE IF Len(v.chars) = 0 THEN "string.empty"
    ELSE IF rule = "email" /\ ~IsEmail(v.chars) THEN "string.email"
    ELSE IF rule = "length12" /\ Len(v.chars) # 12 THEN "string.length"
    ELSE IF rule = "min5" /\ Len(v.chars) < 5 THEN "string.min"
    ELSE "ok"

SchemaKeys == << <<"firstName", "none">>, <<"lastName", "none">>, <<"email", "email">>,
                 <<"phoneNumber", "length12">>, <<"password", "min5">> >>

\* an always-passing validate, as if the result's error were never read
registrationSchemaValidateNone(obj) == NoError

registrationSchemaValidate(obj) ==
    LET failing == { i \in 1..Len(SchemaKeys) :
                        JoiStringRule(Field(obj, SchemaKeys[i][1]), SchemaKeys[i][2]) # "ok" }
    IN  IF failing = {} THEN NoError
        ELSE LET i == CHOOSE x \in failing : \A y \in failing : x <= y
             IN  JoiError(SchemaKeys[i][1],
                          JoiStringRule(Field(obj, SchemaKeys[i][1]), SchemaKeys[i][2]))

\* "valid-shaped" request body: every key passes its rule
ValidShaped(body) ==
    \A i \in 1..Len(SchemaKeys) :
        JoiStringRule(Field(body, SchemaKeys[i][1]), SchemaKeys[i][2]) = "ok"

(***************************************************************************)
(* Request bodies the clients send.                                        *)
(***************************************************************************)
ValidSignup ==
    [firstName |-> Str(<<"c">>), lastName |-> Str(<<"c">>), email |-> EmailUnknown,
     phoneNumber |-> Str(Rep("7", 12)), password |-> Str(Rep("r", 5))]

SignupBodies ==
    {ValidSignup}
    \cup {[ValidSignup EXCEPT ![k] = Undefined] : k \in {"firstName", "phoneNumber", "password"}}
    \cup {[ValidSignup EXCEPT !.email = Str(<<"c", "a", ".", "a">>)],
          [ValidSignup EXCEPT !.phoneNumber = Str(Rep("7", 11))],
          [ValidSignup EXCEPT !.password = Str(Rep("r", 4))]}

PasswordWrong == Str(Rep("p", 6))
Identifiers == {Email1, Phone1, EmailUnknown}
Passwords == {Password1, PasswordWrong, Undefined}

(***************************************************************************)
(* The database driver as the file handlers use it.                        *)
(* `pool` is a pool of the `mysql` package (config/database.js:1-11).      *)
(* Its query(sql, values) queues the statement and returns the Query       *)
(* object, which is no promise: `await pool.query(...)` evaluates to that  *)
(* object at once, and the rows the statement produces go to nobody.       *)
(* (signin and upload pass a callback and do receive err and rows.)        *)
(***************************************************************************)
QueryObject == [type |-> "Query"]
Array(items) == [type |-> "array", items |-> items]

\* a driver whose query() returns a promise of the rows
AwaitPoolQueryRows(rows) == Array(rows)

AwaitPoolQuery(rows) == QueryObject

\* result[0]
Index0(result) ==
    IF result.type = "array" /\ Len(result.items) > 0 THEN result.items[1] ELSE Undefined

(***************************************************************************)
(* The `files` table and the uploads directory.                            *)
(***************************************************************************)
FileRow(id, name, extension, mimeType, size, filename) ==
    [id |-> id, name |-> name, extension |-> extension, mime_type |-> mimeType,
     size |-> size, filename |-> filename]

\* name under which multer stores the n-th blob it writes: upload uses
\* multer's default random name, update the name built at server.js:31-35
\* (timestamp, random suffix, original extension); both are fresh
StoredName(n, ext) == [type |-> "string", stored |-> n, ext |-> ext]

\* path.extname: from the last "." on, unless the name has none or starts with it
ExtName(chars) ==
    LET dots == { i \in 2..Len(chars) : chars[i] = "." }
    IN  IF dots = {} THEN <<>>
        ELSE LET d == CHOOSE i \in dots : \A j \in dots : j <= i
             IN  SubSeq(chars, d, Len(chars))

\* path.basename(name, ext)
BaseName(chars, ext) ==
    IF Len(ext) > 0 /\ Len(ext) < Len(chars)
       /\ SubSeq(chars, Len(chars) - Len(ext) + 1, Len(chars)) = ext
    THEN SubSeq(chars, 1, Len(chars) - Len(ext))
    ELSE chars

\* the state the program starts in: one row that carries a stored filename,
\* with its blob in the uploads directory
InitialBlob == StoredName(0, <<".", "t">>)
InitialFiles ==
    << FileRow(1, Str(<<"o">>), Str(<<".", "t">>), Str(<<"t">>), 1, InitialBlob) >>

\* SELECT * FROM files WHERE id = ?
SelectFile(table, id) == SelectSeq(table, LAMBDA f : f.id = id)

\* DELETE FROM files WHERE id = ?
DeleteFile(table, id) == SelectSeq(table, LAMBDA f : f.id # id)

\* UPDATE files SET filename = ? WHERE id = ?
UpdateFilename(table, id, filename) ==
    [i \in 1..Len(table) |->
        IF table[i].id = id THEN [table[i] EXCEPT !.filename = filename] ELSE table[i]]

\* fs.unlink
Unlink(dir, name) == [n \in DOMAIN dir \ {name} |-> dir[n]]

\* path.join(__dirname, "uploads", filename) throws unless filename is a string
PathJoinThrows(filename) == ~IsString(filename)

\* files a client attaches
Attachments ==
    { [originalname |-> Str(<<"a", ".", "t">>), mimetype |-> Str(<<"t">>), size |-> 1,
       content |-> c] : c \in {"c1", "c2"} }

\* ids a client asks for: the initial row, the first uploaded row, no row
RequestIds == {1, 2, 9}

(***************************************************************************)
(* Responses.                                                              *)
(***************************************************************************)
NoBody == [type |-> "empty"]
Json(fields) == [type |-> "json", fields |-> fields]
ErrorBody(msg) == Json([error |-> msg])
\* Express's own answer to an exception thrown out of a handler
Uncaught == [type |-> "html"]

Idle == [pc |-> "idle"]
Done(kind, input, status, body) ==
    [pc |-> "done", kind |-> kind, input |-> input, status |-> status, body |-> body]

Init ==
    /\ users = InitialUsers
    /\ refreshTokens = <<>>
    /\ now = 0
    /\ files = InitialFiles
    /\ nextId = 2
    /\ uploads = (InitialBlob :> "c0")
    /\ nextBlob = 0
    /\ req = [s \in SlotIds |-> Idle]

(***************************************************************************)
(* POST /users/signup  (server.js:41-61)                                   *)
(* The object handed to validate holds firstName, lastName, email and      *)
(* password only: phoneNumber is not passed on.  On success the password   *)
(* is hashed and the INSERT is issued without waiting for its outcome      *)
(* (`inserted`: whether the database carries it out).                      *)
(***************************************************************************)
Signup(s, body, salt, inserted) ==
    /\ req[s] = Idle
    /\ LET picked == [firstName |-> body.firstName, lastName |-> body.lastName,
                      email |-> body.email, password |-> body.password]
           error == registrationSchemaValidate(picked)
       IN  IF error # NoError
           THEN /\ req' = [req EXCEPT ![s] = Done("signup", body, 400, ErrorBody(error))]
                /\ UNCHANGED users
           ELSE LET hashedPassword == BcryptHash(body.password, salt)
                IN  /\ users' = IF inserted
                                THEN InsertUser(users, body.firstName, body.lastName,
                                                body.email, hashedPassword)
                                ELSE users
                    /\ req' = [req EXCEPT ![s] =
                                 Done("signup", body, 200,
                                      Json([message |-> "User registered successfully"]))]
    /\ UNCHANGED <<refreshTokens, now, files, nextId, uploads, nextBlob>>

(***************************************************************************)
(* POST /users/signin  (server.js:77-118)                                  *)
(* Three stretches: the handler issues the SELECT, which the database      *)
(* answers with (err, rows); the query callback looks at err and rows and  *)
(* starts bcrypt.compare; the continuation after the await signs both      *)
(* tokens, pushes the refresh token and responds.                          *)
(***************************************************************************)
InvalidCredentials == ErrorBody("Invalid credentials")
InternalServerError == ErrorBody("Internal server error")

\* server.js:77-85; err: whether the database fails the query
SigninRequest(s, identifier, password, err) ==
    /\ req[s] = Idle
    /\ req' = [req EXCEPT ![s] =
                 [pc |-> "signin_callback", kind |-> "signin",
                  input |-> [identifier |-> identifier, password |-> password],
                  err |-> err,
                  rows |-> IF err THEN <<>> ELSE SelectUsers(users, identifier)]]
    /\ UNCHANGED <<users, refreshTokens, now, files, nextId, uploads, nextBlob>>

NoSuchUserAnswerLeaky == [status |-> 404, body |-> ErrorBody("User not found")]

\* server.js:92-95
NoSuchUserAnswer == [status |-> 401, body |-> InvalidCredentials]

\* server.js:102-105
WrongPasswordAnswer == [status |-> 401, body |-> InvalidCredentials]

\* server.js:85-97, the callback of pool.query
SigninCallback(s) ==
    /\ req[s].pc = "signin_callback"
    /\ LET r == req[s]
       IN  req' = [req EXCEPT ![s] =
                IF r.err THEN Done("signin", r.input, 500, InternalServerError)
                ELSE IF Len(r.rows) = 0
                     THEN Done("signin", r.input, NoSuchUserAnswer.status, NoSuchUserAnswer.body)
                ELSE [pc |-> "signin_compare", kind |-> "signin", input |-> r.input,
                      user |-> r.rows[1]]]
    /\ UNCHANGED <<users, refreshTokens, now, files, nextId, uploads, nextBlob>>

\* refreshTokens.push(refreshToken)
RegistryPushNothing(registry, token) == registry

RegistryPushStale(registry, token) == << token >>

RegistryPush(registry, token) == Append(registry, token)

\* jwt.sign({ userId: user.id }, process.env.ACCESS_SECRET_TOKEN, { expiresIn: '10m' })
IssueAccess(userId, t) == JwtSign([userId |-> userId], ACCESS_SECRET_TOKEN, AccessTTL, t)

\* jwt.sign({ userId: user.id }, process.env.REFRESH_TOKEN_SECRET, { expiresIn: '7d' })
IssueRefresh(userId, t) == JwtSign([userId |-> userId], REFRESH_TOKEN_SECRET, RefreshTTL, t)

\* server.js:99-116, after await bcrypt.compare
SigninCompare(s) ==
    /\ req[s].pc = "signin_compare"
    /\ LET r == req[s]
           isPasswordValid == BcryptCompare(r.input.password, r.user.password)
           accessToken == IssueAccess(r.user.id, now)
           refreshToken == IssueRefresh(r.user.id, now)
       IN  CASE isPasswordValid = "throw" ->
                  /\ req' = [req EXCEPT ![s] = Done("signin", r.input, 500, InternalServerError)]
                  /\ UNCHANGED refreshTokens
             [] isPasswordValid = "false" ->
                  /\ req' = [req EXCEPT ![s] = Done("signin", r.input, WrongPasswordAnswer.status,
                                                    WrongPasswordAnswer.body)]
                  /\ UNCHANGED refreshTokens
             [] isPasswordValid = "true" ->
                  /\ Len(refreshTokens) < MaxTokens
                  /\ refreshTokens' = RegistryPush(refreshTokens, refreshToken)
                  /\ req' = [req EXCEPT ![s] =
                               Done("signin", r.input, 200,
                                    Json([accessToken |-> accessToken,
                                          refreshToken |-> refreshToken]))]
    /\ UNCHANGED <<users, now, files, nextId, uploads, nextBlob>>

(***************************************************************************)
(* POST /signin/new_token  (server.js:66-75)                               *)
(* jwt.verify calls its callback before it returns, so the whole handler   *)
(* is one stretch.  On a verified token the callback evaluates             *)
(* generateAccessToken({ name: user.name }); the exception leaves the      *)
(* handler and Express answers 500.  (A jsonwebtoken that defers the       *)
(* callback would let the exception end the process instead; either way    *)
(* no access token is sent.)                                               *)
(***************************************************************************)
Includes(registry, token) == \E i \in 1..Len(registry) : registry[i] = token

RefreshIncludesAlways(registry, token) == TRUE

\* !refreshTokens.includes(refreshToken)
RefreshIncludes(registry, token) == Includes(registry, token)

Refresh(s, token) ==
    /\ req[s] = Idle
    /\ LET input == [token |-> token]
           user == JwtVerify(token, REFRESH_TOKEN_SECRET, now)
           accessToken == generateAccessToken([name |-> Field(user, "name")])
       IN  req' = [req EXCEPT ![s] =
                IF token = Null \/ token = Undefined THEN Done("refresh", input, 401, NoBody)
                ELSE IF ~RefreshIncludes(refreshTokens, token)
                     THEN Done("refresh", input, 403, NoBody)
                ELSE IF user = JwtInvalid THEN Done("refresh", input, 403, NoBody)
                ELSE IF accessToken = ReferenceError
                     THEN Done("refresh", input, 500, Uncaught)
                ELSE Done("refresh", input, 200, Json([accessToken |-> accessToken]))]
    /\ UNCHANGED <<users, refreshTokens, now, files, nextId, uploads, nextBlob>>

(***************************************************************************)
(* DELETE /logout  (server.js:275-278)                                     *)
(***************************************************************************)
RegistryRevokeOldest(registry, token) ==
    IF registry = <<>> THEN registry ELSE Tail(registry)

\* refreshTokens.filter(token => token !== req.body.token)
RegistryRevoke(registry, token) == SelectSeq(registry, LAMBDA t : t # token)

Logout(s, token) ==
    /\ req[s] = Idle
    /\ refreshTokens' = RegistryRevoke(refreshTokens, token)
    /\ req' = [req EXCEPT ![s] = Done("logout", [token |-> token], 204, NoBody)]
    /\ UNCHANGED <<users, now, files, nextId, uploads, nextBlob>>

(***************************************************************************)
(* authenticateToken  (server.js:281-294)                                  *)
(* The middleware is attached to no route of the program; it is modelled   *)
(* as the function it is, applied to a request that carries an             *)
(* Authorization header.  The header is a string of words and spaces; a    *)
(* word is a scheme name or a token.  jwt.verify calls its callback        *)
(* before it returns, so the guard is one stretch: it answers 401 or 403,  *)
(* or sets req.user and calls next().                                      *)
(***************************************************************************)
Space == [type |-> "space"]
Word(w) == [type |-> "word", chars |-> w]
Header(parts) == [type |-> "header", parts |-> parts]

\* String.prototype.split(separator), on the parts of a header
RECURSIVE Split(_, _)
Split(parts, sep) ==
    IF \A i \in 1..Len(parts) : parts[i] # sep THEN << parts >>
    ELSE LET k == CHOOSE i \in 1..Len(parts) :
                     parts[i] = sep /\ \A j \in 1..(i - 1) : parts[j] # sep
         IN  << SubSeq(parts, 1, k - 1) >> \o Split(SubSeq(parts, k + 1, Len(parts)), sep)

\* the string a piece of the split header is: the empty string, the token
\* that makes up the whole piece, or other text
PieceString(piece) ==
    IF piece = <<>> THEN Str(<<>>)
    ELSE IF Len(piece) = 1 /\ IsString(piece[1]) THEN piece[1]
    ELSE [type |-> "string", text |-> piece]

\* array[i], indices from 0
At(array, i) == IF i + 1 \in 1..Len(array) THEN array[i + 1] ELSE Undefined

\* !v for the values a header or token can be
Falsy(v) == v = Undefined \/ v = Null \/ v = Str(<<>>)

\* authHeader && authHeader.split(" ")[1]
HeaderToken(authHeader) ==
    IF Falsy(authHeader) THEN authHeader
    ELSE LET pieces == Split(authHeader.parts, Space)
         IN  IF Len(pieces) < 2 THEN Undefined ELSE PieceString(At(pieces, 1))

authenticateToken(s, authHeader) ==
    /\ req[s] = Idle
    /\ LET input == [authorization |-> authHeader]
           token == HeaderToken(authHeader)
           user == JwtVerify(token, ACCESS_SECRET_TOKEN, now)
       IN  req' = [req EXCEPT ![s] =
                IF Falsy(token) THEN Done("authenticateToken", input, 401, NoBody)
                ELSE IF user = JwtInvalid THEN Done("authenticateToken", input, 403, NoBody)
                ELSE [pc |-> "next", kind |-> "authenticateToken", input |-> input,
                      user |-> user]]
    /\ UNCHANGED <<users, refreshTokens, now, files, nextId, uploads, nextBlob>>

(***************************************************************************)
(* Environment: the client takes a response, or the request that passed    *)
(* the guard goes on; time passes.                                         *)
(***************************************************************************)
Release(s) ==
    /\ req[s].pc \in {"done", "next"}
    /\ req' = [req EXCEPT ![s] = Idle]
    /\ UNCHANGED <<users, refreshTokens, now, files, nextId, uploads, nextBlob>>

Ticks(t) == (t \div RefreshTTL) + (t % RefreshTTL)

Tick(d) ==
    /\ Ticks(now) < MaxTicks
    /\ now' = now + d
    /\ UNCHANGED <<users, refreshTokens, files, nextId, uploads, nextBlob, req>>

\* tokens a client may present: the refresh tokens signin can have issued so
\* far, a token signed with another secret, a string that is no JWT, and no
\* token at all
Clock == { t \in 0..(MaxTicks * RefreshTTL) : Ticks(t) <= MaxTicks }
PresentableTokens ==
    { IssueRefresh(1, t) : t \in { x \in Clock : x <= now } }
    \cup { JwtSign([userId |-> 1], "forged-secret", RefreshTTL, 0), Str(<<"x">>), Null, Undefined }

NextAuth ==
    \/ \E s \in SlotIds, body \in SignupBodies, salt \in Salts, ok \in BOOLEAN :
            Signup(s, body, salt, ok)
    \/ \E s \in SlotIds, i \in Identifiers, p \in Passwords, err \in BOOLEAN :
            SigninRequest(s, i, p, err)
    \/ \E s \in SlotIds : SigninCallback(s)
    \/ \E s \in SlotIds : SigninCompare(s)
    \/ \E s \in SlotIds, t \in PresentableTokens : Refresh(s, t)
    \/ \E s \in SlotIds, t \in PresentableTokens : Logout(s, t)
    \/ \E s \in SlotIds : Release(s)
    \/ \E d \in {AccessTTL, RefreshTTL} : Tick(d)

SpecAuth == Init /\ [][NextAuth]_vars

\* Authorization headers a client may send: none, a scheme and a token (an
\* access token signin can have issued so far, a refresh token, a token
\* signed with another secret, a string that is no JWT), a scheme alone, a
\* token alone, two spaces before the token, another scheme
PresentableAccessTokens ==
    { IssueAccess(1, t) : t \in { x \in Clock : x <= now } }
    \cup { IssueRefresh(1, 0),
           JwtSign([userId |-> 1], "forged-secret", AccessTTL, now), Str(<<"x">>) }

AuthorizationHeaders ==
    { Undefined, Header(<< Word("Bearer") >>) }
    \cup { Header(<< Word("Bearer"), Space, t >>) : t \in PresentableAccessTokens }
    \cup { Header(<< t >>) : t \in PresentableAccessTokens }
    \cup { Header(<< Word("Bearer"), Space, Space, IssueAccess(1, 0) >>),
           Header(<< Word("Basic"), Space, IssueAccess(1, 0) >>) }

NextGuard ==
    \/ \E s \in SlotIds, h \in AuthorizationHeaders : authenticateToken(s, h)
    \/ \E s \in SlotIds : Release(s)
    \/ \E d \in {AccessTTL, RefreshTTL} : Tick(d)

SpecGuard == Init /\ [][NextGuard]_vars

(***************************************************************************)
(* POST /file/upload  (server.js:120-138)                                  *)
(* multer ({ dest: 'uploads/' }) stores the attachment under a random      *)
(* name, then the handler inserts name, extension, mime type and size;     *)
(* the stored name is not part of the row.  Without an attachment          *)
(* req.file is undefined and line 122 throws.                              *)
(***************************************************************************)
UploadStore(s, file, stored) ==
    /\ req[s] = Idle
    /\ IF file = Undefined \/ ~stored
       THEN /\ req' = [req EXCEPT ![s] = Done("upload", [file |-> file], 500, Uncaught)]
            /\ UNCHANGED <<uploads, nextBlob>>
       ELSE /\ nextBlob < MaxBlobs
            /\ LET filename == StoredName(nextBlob + 1, <<>>)
               IN  /\ uploads' = (filename :> file.content) @@ uploads
                   /\ req' = [req EXCEPT ![s] =
                                [pc |-> "upload_insert", kind |-> "upload",
                                 input |-> [file |-> file], filename |-> filename]]
            /\ nextBlob' = nextBlob + 1
    /\ UNCHANGED <<users, refreshTokens, now, files, nextId>>

\* server.js:129-137, the INSERT carried out and its callback
UploadInsert(s) ==
    /\ req[s].pc = "upload_insert"
    /\ LET file == req[s].input.file
           extension == ExtName(file.originalname.chars)
           name == BaseName(file.originalname.chars, extension)
       IN  files' = Append(files, FileRow(nextId, Str(name), Str(extension),
                                          file.mimetype, file.size, Null))
    /\ nextId' = nextId + 1
    /\ req' = [req EXCEPT ![s] =
                 Done("upload", req[s].input, 200,
                      Json([message |-> "File uploaded and data recorded successfully"]))]
    /\ UNCHANGED <<users, refreshTokens, now, uploads, nextBlob>>

\* server.js:130-134, the callback called with an error
UploadInsertError(s) ==
    /\ req[s].pc = "upload_insert"
    /\ req' = [req EXCEPT ![s] =
                 Done("upload", req[s].input, 500,
                      ErrorBody("Error inserting data into database"))]
    /\ UNCHANGED <<users, refreshTokens, now, files, nextId, uploads, nextBlob>>

(***************************************************************************)
(* GET /file/list  (server.js:140-169)                                     *)
(***************************************************************************)
NaN == [type |-> "NaN"]

DigitValue(c) ==
    CASE c = "0" -> 0 [] c = "1" -> 1 [] c = "2" -> 2 [] c = "3" -> 3 [] c = "4" -> 4
      [] c = "5" -> 5 [] c = "6" -> 6 [] c = "7" -> 7 [] c = "8" -> 8 [] c = "9" -> 9
      [] OTHER -> -1

RECURSIVE DigitsValue(_)
DigitsValue(chars) ==
    IF Len(chars) = 0 THEN 0
    ELSE 10 * DigitsValue(SubSeq(chars, 1, Len(chars) - 1)) + DigitValue(chars[Len(chars)])

\* parseInt of a query parameter: the leading digits, NaN when there are none
ParseInt(v) ==
    IF ~IsString(v) THEN NaN
    ELSE LET lead == { n \in 0..Len(v.chars) :
                         \A i \in 1..n : DigitValue(v.chars[i]) >= 0 }
             n == CHOOSE x \in lead : \A y \in lead : y <= x
         IN  IF n = 0 THEN NaN
             ELSE [type |-> "number", value |-> DigitsValue(SubSeq(v.chars, 1, n))]

\* parseInt(x) || dflt: NaN and 0 are falsy
ParseIntOr(v, dflt) ==
    IF ParseInt(v) = NaN \/ ParseInt(v).value = 0 THEN dflt ELSE ParseInt(v).value

\* SELECT * FROM files LIMIT ? OFFSET ?
LimitOffset(table, limit, offset) ==
    SubSeq(table, offset + 1, IF offset + limit < Len(table) THEN offset + limit ELSE Len(table))

\* Math.ceil(a / b) for a >= 0, b > 0
Ceil(a, b) == (a + b - 1) \div b

FileList(s, listSize, pageParam) ==
    /\ req[s] = Idle
    /\ LET input == [list_size |-> listSize, page |-> pageParam]
           pageSize == ParseIntOr(listSize, 10)
           page == ParseIntOr(pageParam, 1)
           offset == (page - 1) * pageSize
           totalCountResult == AwaitPoolQuery(<< [total |-> Len(files)] >>)
           first == Index0(totalCountResult)
       IN  req' = [req EXCEPT ![s] =
                IF first = Undefined
                THEN Done("list", input, 500, ErrorBody("Error retrieving files from database"))
                ELSE Done("list", input, 200,
                          Json([files |-> AwaitPoolQuery(LimitOffset(files, pageSize, offset)),
                                pagination |-> [totalFiles |-> first.total,
                                                totalPages |-> Ceil(first.total, pageSize),
                                                currentPage |-> page,
                                                pageSize |-> pageSize]]))]
    /\ UNCHANGED <<users, refreshTokens, now, files, nextId, uploads, nextBlob>>

(***************************************************************************)
(* DELETE /file/delete/:id  (server.js:173-200)                            *)
(* dbOk: whether the awaited statements succeed; only read past line 183.  *)
(***************************************************************************)
FileNotFound == ErrorBody("File not found")

FileDelete(s, id, dbOk) ==
    /\ req[s] = Idle
    /\ LET input == [id |-> id]
           result == AwaitPoolQuery(SelectFile(files, id))
           file == Index0(result)
       IN  IF file = Undefined
           THEN /\ req' = [req EXCEPT ![s] = Done("delete", input, 404, FileNotFound)]
                /\ UNCHANGED <<files, uploads>>
           ELSE IF ~dbOk
           THEN /\ req' = [req EXCEPT ![s] =
                             Done("delete", input, 500, ErrorBody("Error deleting file"))]
                /\ UNCHANGED <<files, uploads>>
           ELSE /\ files' = DeleteFile(files, id)
                /\ IF PathJoinThrows(file.filename)
                   THEN /\ req' = [req EXCEPT ![s] =
                                     Done("delete", input, 500, ErrorBody("Error deleting file"))]
                        /\ UNCHANGED uploads
                   ELSE /\ uploads' = Unlink(uploads, file.filename)
                        /\ req' = [req EXCEPT ![s] =
                                     Done("delete", input, 200,
                                          Json([message |-> "File deleted successfully"]))]
    /\ UNCHANGED <<users, refreshTokens, now, nextId, nextBlob>>

(***************************************************************************)
(* GET /file/:id  (server.js:202-219)                                      *)
(***************************************************************************)
FileGet(s, id) ==
    /\ req[s] = Idle
    /\ LET result == AwaitPoolQuery(SelectFile(files, id))
           file == Index0(result)
       IN  req' = [req EXCEPT ![s] =
                IF file = Undefined
                THEN Done("get", [id |-> id], 404, FileNotFound)
                ELSE Done("get", [id |-> id], 200, Json([file |-> file]))]
    /\ UNCHANGED <<users, refreshTokens, now, files, nextId, uploads, nextBlob>>

(***************************************************************************)
(* GET /file/download/:id  (server.js:221-243)                             *)
(* Past line 231: path.join throws on a filename that is no string, and    *)
(* setHeader throws on file.mimeType, which the row (column mime_type)     *)
(* does not have; sendFile streams the blob or fails with 404.             *)
(***************************************************************************)
FileDownloadUnchecked(s, id) ==
    /\ req[s] = Idle
    /\ req' = [req EXCEPT ![s] = Done("download", [id |-> id], 404, Uncaught)]
    /\ UNCHANGED <<users, refreshTokens, now, files, nextId, uploads, nextBlob>>

FileDownload(s, id) ==
    /\ req[s] = Idle
    /\ LET result == AwaitPoolQuery(SelectFile(files, id))
           file == Index0(result)
       IN  req' = [req EXCEPT ![s] =
                IF file = Undefined
                THEN Done("download", [id |-> id], 404, FileNotFound)
                ELSE IF PathJoinThrows(file.filename) \/ Field(file, "mimeType") = Undefined
                THEN Done("download", [id |-> id], 500, ErrorBody("Error downloading file"))
                ELSE IF file.filename \in DOMAIN uploads
                THEN Done("download", [id |-> id], 200,
                          [type |-> "stream", content |-> uploads[file.filename],
                           disposition |-> file.filename])
                ELSE Done("download", [id |-> id], 404, Uncaught)]
    /\ UNCHANGED <<users, refreshTokens, now, files, nextId, uploads, nextBlob>>

(***************************************************************************)
(* PUT /file/update/:id  (server.js:246-273)                               *)
(* multer (diskStorage, server.js:27-38) stores the attachment before the  *)
(* handler runs; the handler is one stretch.                               *)
(***************************************************************************)
UpdateStore(s, id, file, stored) ==
    /\ req[s] = Idle
    /\ IF ~stored
       THEN /\ req' = [req EXCEPT ![s] =
                         Done("update", [id |-> id, file |-> file], 500, Uncaught)]
            /\ UNCHANGED <<uploads, nextBlob>>
       ELSE /\ nextBlob < MaxBlobs
            /\ LET filename == StoredName(nextBlob + 1, ExtName(file.originalname.chars))
               IN  /\ uploads' = (filename :> file.content) @@ uploads
                   /\ req' = [req EXCEPT ![s] =
                                [pc |-> "update_handler", kind |-> "update",
                                 input |-> [id |-> id, file |-> file],
                                 filename |-> filename]]
            /\ nextBlob' = nextBlob + 1
    /\ UNCHANGED <<users, refreshTokens, now, files, nextId>>

UpdateHandler(s, dbOk) ==
    /\ req[s].pc = "update_handler"
    /\ LET r == req[s]
           result == AwaitPoolQuery(SelectFile(files, r.input.id))
           file == Index0(result)
           error == Done("update", r.input, 500, ErrorBody("Error updating file"))
       IN  IF file = Undefined
           THEN /\ req' = [req EXCEPT ![s] = Done("update", r.input, 404, FileNotFound)]
                /\ UNCHANGED <<files, uploads>>
           ELSE IF PathJoinThrows(file.filename)
           THEN /\ req' = [req EXCEPT ![s] = error]
                /\ UNCHANGED <<files, uploads>>
           ELSE /\ uploads' = Unlink(uploads, file.filename)
                /\ IF ~dbOk
                   THEN /\ req' = [req EXCEPT ![s] = error]
                        /\ UNCHANGED files
                   ELSE /\ files' = UpdateFilename(files, r.input.id, r.filename)
                        /\ req' = [req EXCEPT ![s] =
                                     Done("update", r.input, 200,
                                          Json([message |-> "File updated successfully"]))]
    /\ UNCHANGED <<users, refreshTokens, now, nextId, nextBlob>>

QueryParams == {Undefined, Str(<<"0">>), Str(<<"1">>), Str(<<"2">>)}

NextFile ==
    \/ \E s \in SlotIds, f \in Attachments \cup {Undefined}, ok \in BOOLEAN :
            UploadStore(s, f, ok)
    \/ \E s \in SlotIds : UploadInsert(s)
    \/ \E s \in SlotIds : UploadInsertError(s)
    \/ \E s \in SlotIds, l \in QueryParams, p \in QueryParams : FileList(s, l, p)
    \/ \E s \in SlotIds, id \in RequestIds, ok \in BOOLEAN : FileDelete(s, id, ok)
    \/ \E s \in SlotIds, id \in RequestIds : FileGet(s, id)
    \/ \E s \in SlotIds, id \in RequestIds : FileDownload(s, id)
    \/ \E s \in SlotIds, id \in RequestIds, f \in Attachments, ok \in BOOLEAN :
            UpdateStore(s, id, f, ok)
    \/ \E s \in SlotIds, ok \in BOOLEAN : UpdateHandler(s, ok)
    \/ \E s \in SlotIds : Release(s)

SpecFile == Init /\ [][NextFile]_vars

(***************************************************************************)
(* Properties of the auth handlers, stated for SpecAuth.                   *)
(***************************************************************************)
\* slot s finishes a request of this kind in the step
Completes(s, kind) ==
    /\ req[s].pc # "done"
    /\ req'[s].pc = "done"
    /\ req'[s].kind = kind

\* what is true of the stored users, stated without the handlers' helpers
RegisteredCredentials ==
    { <<Email1, Password1>>, <<Phone1, Password1>>, <<Email2, Password2>>, <<Phone2, Password2>> }
OwnerOf(identifier) == IF identifier \in {Email1, Phone1} THEN 1 ELSE 2
UnknownIdentifier(identifier) == \A c \in RegisteredCredentials : c[1] # identifier

\* C1: a refresh request with a non-null token that is not in the registry
\* when the request is handled is answered 403 with no body, so no access
\* token is issued
C1_UnregisteredRefreshIs403 ==
    [][\A s \in SlotIds :
          (/\ Completes(s, "refresh")
           /\ req'[s].input.token \notin {Null, Undefined}
           /\ ~Includes(refreshTokens, req'[s].input.token))
          => (req'[s].status = 403 /\ req'[s].body = NoBody)]_vars

\* a validly signed, unexpired refresh token that the other request has just
\* logged out is refused
C1_Witness ==
    \E s, l \in SlotIds :
        /\ req[s].pc = "done" /\ req[s].kind = "refresh" /\ req[s].status = 403
        /\ req[l].pc = "done" /\ req[l].kind = "logout"
        /\ req[l].input.token = req[s].input.token
        /\ JwtVerify(req[s].input.token, REFRESH_TOKEN_SECRET, now) # JwtInvalid
        /\ ~Includes(refreshTokens, req[s].input.token)

\* C2: a refresh request whose token is in the registry and verifies is
\* answered 200 with a new access token carrying the refresh token's userId
C2_RefreshIssuesAccessToken ==
    [][\A s \in SlotIds :
          (/\ Completes(s, "refresh")
           /\ Includes(refreshTokens, req'[s].input.token)
           /\ JwtVerify(req'[s].input.token, REFRESH_TOKEN_SECRET, now) # JwtInvalid)
          => (/\ req'[s].status = 200
              /\ req'[s].body.type = "json"
              /\ JwtVerify(req'[s].body.fields.accessToken, ACCESS_SECRET_TOKEN, now)
                    = [userId |-> req'[s].input.token.payload.userId])]_vars

\* C3: a signup with valid-shaped fields creates a user row whose stored
\* password verifies against the submitted one and differs from it
C3_ValidSignupCreatesUser ==
    \A s \in SlotIds :
        (req[s].pc = "done" /\ req[s].kind = "signup" /\ ValidShaped(req[s].input))
        => (/\ req[s].status = 200
            /\ \E i \in 1..Len(users) :
                  /\ users[i].email = req[s].input.email
                  /\ BcryptCompare(req[s].input.password, users[i].password) = "true"
                  /\ users[i].password # req[s].input.password)

\* C4: a signin with the email or phone of a registered user and that user's
\* password, whose lookup the database answered, goes on to the password
\* comparison and is then answered 200 with an access token that verifies under the
\* access secret for that user and a refresh token that is in the registry
\* when the response is sent
C4_SigninIssuesRegisteredTokens ==
    [][\A s \in SlotIds :
          LET r == req[s]
              q == req'[s]
          IN  /\ (/\ r.pc = "signin_callback" /\ q # r /\ ~r.err
                  /\ <<r.input.identifier, r.input.password>> \in RegisteredCredentials)
                 => q.pc = "signin_compare"
              /\ (/\ r.pc = "signin_compare" /\ q # r
                  /\ <<r.input.identifier, r.input.password>> \in RegisteredCredentials)
                 => (/\ q.pc = "done"
                     /\ q.status = 200
                     /\ q.body.type = "json"
                     /\ JwtVerify(q.body.fields.accessToken, ACCESS_SECRET_TOKEN, now)
                           = [userId |-> OwnerOf(r.input.identifier)]
                     /\ JwtVerify(q.body.fields.refreshToken, REFRESH_TOKEN_SECRET, now)
                           = [userId |-> OwnerOf(r.input.identifier)]
                     /\ Includes(refreshTokens', q.body.fields.refreshToken))]_vars

\* a signin by phone number has been answered 200 and its refresh token is
\* registered
C4_Witness ==
    \E s \in SlotIds :
        /\ req[s].pc = "done" /\ req[s].kind = "signin" /\ req[s].status = 200
        /\ req[s].input.identifier = Phone1
        /\ Includes(refreshTokens, req[s].body.fields.refreshToken)

\* C8: a signup that misses a required field, or whose phoneNumber is not 12
\* or whose password is under 5 characters long, is answered 400 and changes
\* nothing: no user row, no token, no file, no blob, no other request
MissesRequired(body) ==
    \E k \in {"firstName", "lastName", "email", "phoneNumber", "password"} :
        body[k] = Undefined
ViolatesLength(body) ==
    \/ IsString(body.phoneNumber) /\ Len(body.phoneNumber.chars) # 12
    \/ IsString(body.password) /\ Len(body.password.chars) < 5

C8_InvalidSignupIs400 ==
    [][\A s \in SlotIds :
          (/\ Completes(s, "signup")
           /\ (MissesRequired(req'[s].input) \/ ViolatesLength(req'[s].input)))
          => (/\ req'[s].status = 400
              /\ req'[s].body.type = "json"
              /\ "error" \in DOMAIN req'[s].body.fields
              /\ \A o \in SlotIds \ {s} : req'[o] = req[o]
              /\ UNCHANGED <<users, refreshTokens, now, files, nextId, uploads, nextBlob>>)]_vars

\* a signup whose only defect is a 4-character password has been answered 400
C8_Witness ==
    \E s \in SlotIds :
        /\ req[s].pc = "done" /\ req[s].kind = "signup" /\ req[s].status = 400
        /\ req[s].input = [ValidSignup EXCEPT !.password = Str(Rep("r", 4))]
        /\ users = InitialUsers

RowExists(table, id) == \E i \in 1..Len(table) : table[i].id = id
RowOf(table, id) == table[CHOOSE i \in 1..Len(table) : table[i].id = id]

\* a delete is one stretch, so only an update can be between its two stretches
UpdateOrDeleteInFlight == \E s \in SlotIds : req[s].pc = "update_handler"

\* C5: whenever no delete or update request is in flight, every row of
\* `files` with a non-null filename has its blob in the uploads directory
C5_RowsWithFilenameHaveBlob ==
    ~UpdateOrDeleteInFlight
    => \A i \in 1..Len(files) :
          files[i].filename # Null => files[i].filename \in DOMAIN uploads

\* an update and a delete of the row that carries a filename have both been
\* answered, another row has been uploaded, and nothing is in flight
C5_Witness ==
    /\ ~UpdateOrDeleteInFlight
    /\ \E s, o \in SlotIds :
          /\ req[s].pc = "done" /\ req[s].kind = "update" /\ req[s].input.id = 1
          /\ req[s].status # 500
          /\ req[o].pc = "done" /\ req[o].kind = "delete" /\ req[o].input.id = 1
    /\ Len(files) > 1
    /\ \E i \in 1..Len(files) : files[i].filename # Null

\* C6: an update of an existing id X with a new blob is answered 200 (or 500
\* when a storage step fails); once it is answered 200, X's row names the new
\* blob, that blob holds the new content (what a download of X streams), and
\* the blob X named before is gone from disk
C6_UpdateReplacesBlob ==
    [][\A s \in SlotIds :
          (/\ req[s].pc = "update_handler"
           /\ req'[s] # req[s]
           /\ RowExists(files, req[s].input.id))
          => (/\ req'[s].pc = "done"
              /\ req'[s].status \in {200, 500}
              /\ req'[s].status = 200
                 => (/\ RowExists(files', req[s].input.id)
                     /\ RowOf(files', req[s].input.id).filename = req[s].filename
                     /\ req[s].filename \in DOMAIN uploads'
                     /\ uploads'[req[s].filename] = req[s].input.file.content
                     /\ RowOf(files, req[s].input.id).filename \notin DOMAIN uploads'))]_vars

\* C7: when a delete of an existing id X completes (other than with a 500),
\* X has no row any more (GET /file/X is 404) and `files` holds exactly one
\* row less than before
C7_DeleteRemovesOneRow ==
    [][\A s \in SlotIds :
          (/\ Completes(s, "delete")
           /\ RowExists(files, req'[s].input.id)
           /\ req'[s].status # 500)
          => (/\ ~RowExists(files', req'[s].input.id)
              /\ Len(files') = Len(files) - 1)]_vars

\* C10: a list request with pageSize >= 1 and page >= 1 over N rows is
\* answered 200 with the rows at positions [offset, offset + pageSize),
\* offset = (page - 1) * pageSize, totalFiles = N and
\* totalPages = ceil(N / pageSize)
QueryNumber(v) ==
    CASE v = Str(<<"1">>) -> 1 [] v = Str(<<"2">>) -> 2 [] OTHER -> 0

C10_ListPagination ==
    [][\A s \in SlotIds :
          LET q == req'[s]
              pageSize == QueryNumber(q.input.list_size)
              page == QueryNumber(q.input.page)
              offset == (page - 1) * pageSize
              N == Len(files)
              expected == [i \in 1..(IF N - offset < 0 THEN 0
                                     ELSE IF N - offset < pageSize THEN N - offset
                                     ELSE pageSize) |-> files[offset + i]]
          IN  (Completes(s, "list") /\ pageSize >= 1 /\ page >= 1)
              => (/\ q.status = 200
                  /\ q.body.type = "json"
                  /\ q.body.fields.files.type = "array"
                  /\ q.body.fields.files.items = expected
                  /\ q.body.fields.pagination.totalFiles = N
                  /\ q.body.fields.pagination.totalPages * pageSize >= N
                  /\ (q.body.fields.pagination.totalPages - 1) * pageSize < N)]_vars

(***************************************************************************)
(* Properties of the auth guard, stated for SpecGuard.                     *)
(***************************************************************************)
\* the token a header carries: what follows the scheme word and one space
NoToken == [type |-> "none"]
CarriedToken(header) ==
    IF header = Undefined THEN NoToken
    ELSE IF Len(header.parts) = 3 /\ header.parts[1].type = "word"
            /\ header.parts[2] = Space /\ header.parts[3].type = "string"
         THEN header.parts[3]
    ELSE NoToken

\* an access token of this server that is inside its lifetime at time t
ValidAccessToken(token, t) ==
    /\ "jwt" \in DOMAIN token
    /\ token.secret = ACCESS_SECRET_TOKEN
    /\ token.iat <= t /\ t < token.iat + AccessTTL
    /\ token.exp = token.iat + AccessTTL

\* C11: the guard answers 401 with no body when the header carries no
\* token, 403 with no body when it carries a token that is not a valid
\* access token at that time (wrong secret, no JWT, expired), and otherwise
\* sets req.user to the token's claims and calls next; so it calls next
\* only for a valid access token, and every request gets exactly one of
\* the three outcomes
C11_GuardOutcomes ==
    [][\A s \in SlotIds :
          (req[s] = Idle /\ req'[s] # Idle /\ req'[s].kind = "authenticateToken")
          => LET q == req'[s]
                 token == CarriedToken(q.input.authorization)
             IN  /\ q.pc \in {"done", "next"}
                 /\ q.pc = "done" => (q.status \in {401, 403} /\ q.body = NoBody)
                 /\ token = NoToken <=> (q.pc = "done" /\ q.status = 401)
                 /\ (token # NoToken /\ ~ValidAccessToken(token, now))
                        <=> (q.pc = "done" /\ q.status = 403)
                 /\ (token # NoToken /\ ValidAccessToken(token, now))
                        <=> (q.pc = "next" /\ q.user = token.payload)]_vars

\* one request has passed the guard with a token issued now, while a
\* request with the access token issued before the clock advanced, past
\* its lifetime, has been halted with 403
C11_Witness ==
    \E s, e \in SlotIds :
        /\ req[s].pc = "next" /\ req[s].kind = "authenticateToken"
        /\ req[s].user = [userId |-> 1]
        /\ req[e].pc = "done" /\ req[e].kind = "authenticateToken" /\ req[e].status = 403
        /\ req[e].input.authorization = Header(<< Word("Bearer"), Space, IssueAccess(1, 0) >>)
        /\ now >= AccessTTL

(***************************************************************************)
(* Properties of logout and of the registry, stated for SpecAuth.          *)
(***************************************************************************)
\* C12: a logout request is answered 204 with no body whether or not its
\* token is in the registry; after it the token is not in the registry,
\* and every other token is in the registry exactly if it was before
C12_LogoutRevokesOnlyItsToken ==
    [][\A s \in SlotIds :
          Completes(s, "logout")
          => LET token == req'[s].input.token
                 others == ({ refreshTokens[i] : i \in 1..Len(refreshTokens) }
                            \cup PresentableTokens) \ {token}
             IN  /\ req'[s].status = 204
                 /\ req'[s].body = NoBody
                 /\ ~Includes(refreshTokens', token)
                 /\ \A t \in others :
                        Includes(refreshTokens', t) <=> Includes(refreshTokens, t)]_vars

\* a token issued at time 0 has been logged out while the registry holds
\* the token a signin issued after the clock advanced
C12_Witness ==
    \E l, o \in SlotIds :
        /\ req[l].pc = "done" /\ req[l].kind = "logout" /\ req[l].status = 204
        /\ req[l].input.token = IssueRefresh(1, 0)
        /\ req[o].pc = "done" /\ req[o].kind = "signin" /\ req[o].status = 200
        /\ req[o].body.fields.refreshToken # req[l].input.token
        /\ Includes(refreshTokens, req[o].body.fields.refreshToken)
        /\ ~Includes(refreshTokens, req[l].input.token)

\* the registry as a set
RegistrySet(registry) == { registry[i] : i \in 1..Len(registry) }

\* C17: in every interleaving of signin, refresh and logout requests each
\* step takes the registry, as a set, from its content before the step to
\* that content plus the token of a signin answered 200 in the step, minus
\* the token of a logout answered in the step; so the final content is that
\* of the registrations and revocations applied one after the other in the
\* order in which the requests were answered, and no registered token is
\* lost to the logout of another token
C17_RegistryIsAtomicSet ==
    [][LET registered == { req'[s].body.fields.refreshToken :
                              s \in { x \in SlotIds : Completes(x, "signin")
                                                        /\ req'[x].status = 200 } }
           revoked == { req'[s].input.token :
                              s \in { x \in SlotIds : Completes(x, "logout") } }
       IN  RegistrySet(refreshTokens')
              = (RegistrySet(refreshTokens) \cup registered) \ revoked]_vars

\* while a signin waits for bcrypt.compare, a logout of the token issued at
\* time 0 has been answered and the registry still holds another token
C17_Witness ==
    \E a, l \in SlotIds :
        /\ req[a].pc = "signin_compare"
        /\ req[l].pc = "done" /\ req[l].kind = "logout"
        /\ req[l].input.token = IssueRefresh(1, 0)
        /\ refreshTokens # <<>>
        /\ ~Includes(refreshTokens, req[l].input.token)

(***************************************************************************)
(* Properties of download, update and delete, stated for SpecFile.         *)
(***************************************************************************)
\* C13: a download request for an id that has no row is answered 404 with
\* the body { error: "File not found" }, which is the answer of
\* server.js:230, sent before the handler builds a path or calls sendFile
\* (whose own failure is a 404 with another body); the uploads directory
\* is as it was
C13_DownloadMissingIs404BeforeDisk ==
    [][\A s \in SlotIds :
          (Completes(s, "download") /\ ~RowExists(files, req'[s].input.id))
          => (/\ req'[s].status = 404
              /\ req'[s].body = FileNotFound
              /\ uploads' = uploads)]_vars

\* a download of id 9, which no row has, has been answered 404 while the
\* table and the directory are not empty
C13_Witness ==
    \E s \in SlotIds :
        /\ req[s].pc = "done" /\ req[s].kind = "download" /\ req[s].status = 404
        /\ req[s].input.id = 9
        /\ ~RowExists(files, 9)
        /\ Len(files) > 1
        /\ DOMAIN uploads # {}

\* a blob on disk that no row references; a row whose filename has no blob
OrphanedBlob ==
    \E n \in DOMAIN uploads : \A i \in 1..Len(files) : files[i].filename # n
MissingBlob ==
    \E i \in 1..Len(files) :
        files[i].filename # Null /\ files[i].filename \notin DOMAIN uploads

\* an update whose attachment was stored and a delete, both for the same
\* id with a row, have both been answered, and the update's blob is the
\* only one the program has written
UpdateAndDeleteCompleted(u, d) ==
    /\ req[u].pc = "done" /\ req[u].kind = "update" /\ req[u].status # 500
    /\ req[d].pc = "done" /\ req[d].kind = "delete"
    /\ req[u].input.id = req[d].input.id
    /\ (RowExists(files, req[d].input.id) \/ req[d].status = 200)
    /\ nextBlob = 1

\* C14: there is an interleaving of one delete and one update of the same
\* existing id after which, both answered, a blob is on disk that no row
\* references or a row references a filename without a blob.  Stated as:
\* whenever such an update and delete have both been answered, the
\* directory holds an unreferenced blob or a row lacks its blob; the
\* witness is a state where that has happened
C14_UpdateAndDeleteDiverge ==
    \A u, d \in SlotIds :
        UpdateAndDeleteCompleted(u, d) => (OrphanedBlob \/ MissingBlob)

\* an update and a delete of id 1 have both been answered and the blob
\* stored for the update is referenced by no row
C14_Witness ==
    \E u, d \in SlotIds :
        /\ UpdateAndDeleteCompleted(u, d)
        /\ req[u].input.id = 1
        /\ RowExists(files, 1)
        /\ StoredName(1, <<".", "t">>) \in DOMAIN uploads
        /\ \A i \in 1..Len(files) : files[i].filename # StoredName(1, <<".", "t">>)

\* the row of this id is the same in both tables, or is in neither
SameRow(before, after, id) ==
    /\ RowExists(before, id) <=> RowExists(after, id)
    /\ RowExists(before, id) => RowOf(before, id) = RowOf(after, id)

\* the blobs the request of slot s has found on disk when it began: for an
\* update in its handler, all but the one multer stored for it
BlobsBefore(s) ==
    IF req[s].pc = "update_handler"
    THEN [n \in DOMAIN uploads \ {req[s].filename} |-> uploads[n]]
    ELSE uploads

\* C15: when an update or delete request is answered 500, the row of the
\* addressed id and the blobs on disk are as they were before the request:
\* no row changed or removed, no blob removed, no blob added
C15_NoPartialCommitOn500 ==
    [][\A s \in SlotIds :
          ((Completes(s, "update") \/ Completes(s, "delete")) /\ req'[s].status = 500)
          => (/\ SameRow(files, files', req'[s].input.id)
              /\ uploads' = BlobsBefore(s))]_vars

\* an update of the existing id 1 has been answered 500; its row still
\* names the initial blob, which is still on disk
C15_Witness ==
    \E s \in SlotIds :
        /\ req[s].pc = "done" /\ req[s].kind = "update" /\ req[s].status = 500
        /\ req[s].input.id = 1
        /\ RowExists(files, 1)
        /\ RowOf(files, 1).filename = InitialBlob
        /\ InitialBlob \in DOMAIN uploads

\* the blob of the row of this id cannot be removed: the row has no stored
\* filename, or no blob of that name is on disk
BlobRemovalFails(table, dir, id) ==
    \/ RowOf(table, id).filename = Null
    \/ RowOf(table, id).filename \notin DOMAIN dir

\* C16: an update or delete of an existing id whose old blob cannot be
\* removed is still answered 200, and the row is updated to the new
\* filename, or deleted
C16_BlobRemovalIsBestEffort ==
    [][\A s \in SlotIds :
          LET id == req'[s].input.id
          IN  /\ (/\ Completes(s, "update") /\ req[s].pc = "update_handler"
                  /\ RowExists(files, id) /\ BlobRemovalFails(files, uploads, id))
                 => (/\ req'[s].status = 200
                     /\ RowExists(files', id)
                     /\ RowOf(files', id).filename = req[s].filename)
              /\ (/\ Completes(s, "delete")
                  /\ RowExists(files, id) /\ BlobRemovalFails(files, uploads, id))
                 => (req'[s].status = 200 /\ ~RowExists(files', id))]_vars

\* C18: when an update request for an id without a row is answered, the
\* answer is 404, the files table is as it was, and the blob stored for
\* the request is not on disk (the directory is as it was before the
\* request)
C18_RejectedUpdateLeavesNoBlob ==
    [][\A s \in SlotIds :
          (/\ Completes(s, "update") /\ req[s].pc = "update_handler"
           /\ ~RowExists(files, req'[s].input.id))
          => (/\ req'[s].status = 404
              /\ files' = files
              /\ uploads' = BlobsBefore(s))]_vars
====
